---------------------------- MODULE Spec2Model ----------------------------
(***************************************************************************)
(* Model of src/src/main2.cpp: the DHT11 weather-station sketch.           *)
(*                                                                         *)
(* The state is the sketch's globals (log_history, log_times, log_count),  *)
(* the locals of loop() that survive a step (temp, hum, the metric set,    *)
(* the loop counter of the wait pattern), the activation record of         *)
(* blinkLed, the LED pin, the 32-bit millisecond clock, and the text the   *)
(* current cycle has written to Serial.  loop() is modelled statement by   *)
(* statement with a program counter; add_log and print_log_section are     *)
(* operators computed as the code computes them.                          *)
(*                                                                         *)
(* Three specifications:                                                   *)
(*   Spec     the acquisition loop (setup() done, loop() called for ever); *)
(*   FairSpec Spec with weak fairness: the core keeps executing;           *)
(*   LogSpec  a driver of the rolling log alone: clear, add_log with any   *)
(*            message, print_log_section, in any order.                    *)
(***************************************************************************)
EXTENDS Integers, Sequences, FiniteSets, TLC

\* ------------------------------------------------------------------ bounds
\* number of loop() invocations explored
MaxCycles == 2
\* number of add_log calls after a clear explored by LogSpec
MaxAppends == 7

\* ------------------------------------------------------- program constants
LOG_SIZE == 6

WAIT_MSG == "=== WAIT FOR 10 SECONDS FOR SCREEN TO REFRESH ==="
MSG_MEASUREMENT == "Measurement received from DHT11."
MSG_SENSOR_ERROR == "Sensor error: nan values."
MSG_CALCULATIONS == "Calculations for metrics done."
MSG_PARSING == "Parsing data to serial output."
MSG_SUCCESS == "Successful display to serial monitor."

\* --------------------------------------------- unsigned long (32 bits)
\* An unsigned long is kept as two 16-bit halves, value = hi * 2^16 + lo,
\* so that every intermediate stays inside 32-bit signed integers.
Half == 2 ^ 16

ULong(h, l) == [hi |-> h, lo |-> l]

\* t + d modulo 2^32, for 0 <= d < 2^16 * 1000
Add32(t, d) ==
  LET s == t.lo + d
  IN  [hi |-> (t.hi + (s \div Half)) % Half, lo |-> s % Half]

\* did t + d pass 2^32 ?
Carry32(t, d) == t.hi + ((t.lo + d) \div Half) >= Half

\* a <= b as unsigned longs
Le32(a, b) == a.hi < b.hi \/ (a.hi = b.hi /\ a.lo <= b.lo)

\* (b - a) modulo 2^32
Sub32(b, a) ==
  LET borrow == IF b.lo < a.lo THEN 1 ELSE 0
  IN  [hi |-> (b.hi - a.hi - borrow + 2 * Half) % Half,
       lo |-> (b.lo - a.lo + Half) % Half]

\* t / 1000 (unsigned division), by long division on the halves
Div1000(t) ==
  ((t.hi \div 1000) * Half) + ((((t.hi % 1000) * Half) + t.lo) \div 1000)

\* "%02lu:%02lu:%02lu" of sec/3600, (sec/60)%60, sec%60
HMS(sec) == <<sec \div 3600, (sec \div 60) % 60, sec % 60>>

\* ------------------------------------------------------------- readings
\* A float returned by the sensor: NaN or a value (whole degrees / percent,
\* which is all a DHT11 delivers).
NaN == [nan |-> TRUE, v |-> 0]
Val(x) == [nan |-> FALSE, v |-> x]
isnan(x) == x.nan

Temperatures == {NaN, Val(27)}
Humidities == {NaN, Val(43)}

VARIABLES
  pc,           \* position in loop() / blinkLed(); "idle" between two calls of loop()
  temp, hum,    \* loop(): float temp, hum
  metrics,      \* loop(): the derived floats and whether they have been computed
  log_history,  \* String log_history[LOG_SIZE]
  log_times,    \* unsigned long log_times[LOG_SIZE]
  log_count,    \* int log_count
  now,          \* the clock millis() reads
  led,          \* level of LED_PIN
  wait_i,       \* loop(): int i of the 8-blink wait loop
  blink,        \* blinkLed(): times, delayMs, i and the return position
  out,          \* what the current cycle has printed on Serial, section by section
  events,       \* history: the steps of the current cycle, in order
  waited,       \* history: milliseconds of delay() since the log section was printed
  wrapped,      \* history: the clock passed 2^32 since the log was cleared
  appended,     \* history: the (message, time) pairs appended since the log was cleared
  evicted,      \* history: add_log has taken its shifting branch
  done          \* history: branch and wait of every completed cycle

logv == <<log_history, log_times, log_count>>
histv == <<events, waited, wrapped, appended, evicted, done>>
vars == <<pc, temp, hum, metrics, log_history, log_times, log_count, now, led,
          wait_i, blink, out, events, waited, wrapped, appended, evicted, done>>

Slots == 0 .. (LOG_SIZE - 1)

\* ----------------------------------------------------------- rolling log
\* millis() as add_log and the uptime line read it
millis_uint16 == ULong(0, now.lo)
millis == now

\* add_log(msg): the globals after the call, from the globals before it
add_log_no_shift(h, t, c, msg, ms) ==
  IF c < LOG_SIZE
    THEN [history |-> [h EXCEPT ![c] = msg],
          times   |-> [t EXCEPT ![c] = ms],
          count   |-> c + 1]
    ELSE [history |-> [h EXCEPT ![LOG_SIZE - 1] = msg],
          times   |-> [t EXCEPT ![LOG_SIZE - 1] = ms],
          count   |-> c]
add_log(h, t, c, msg, ms) ==
  IF c < LOG_SIZE
    THEN [history |-> [h EXCEPT ![c] = msg],
          times   |-> [t EXCEPT ![c] = ms],
          count   |-> c + 1]
    ELSE [history |-> [i \in Slots |-> IF i < LOG_SIZE - 1 THEN h[i + 1] ELSE msg],
          times   |-> [i \in Slots |-> IF i < LOG_SIZE - 1 THEN t[i + 1] ELSE ms],
          count   |-> c]

\* the effect of a statement add_log(msg) on the state
DoAddLog(msg) ==
  LET r == add_log(log_history, log_times, log_count, msg, millis)
  IN  /\ log_history' = r.history
      /\ log_times' = r.times
      /\ log_count' = r.count
      /\ appended' = Append(appended, [msg |-> msg, time |-> now])
      /\ evicted' = (evicted \/ ~(log_count < LOG_SIZE))

\* ------------------------------------------------------------ rendering
TextLine(s) == <<"text", s>>
BlankLine == TextLine("                                                     ")

\* one line of the log section for entry i
LogLine(h, t, i) ==
  IF h[i] = WAIT_MSG
    THEN <<"plain", h[i]>>
    ELSE <<"stamped", HMS(Div1000(t[i])), h[i]>>

\* print_log_section(): the lines it prints
print_log_section_short_pad(h, t, c) ==
  <<TextLine("Log & Status:")>>
    \o [k \in 1 .. c |-> LogLine(h, t, k - 1)]
    \o [k \in 1 .. (LOG_SIZE - (c + 1)) |-> BlankLine]
    \o <<BlankLine>>
print_log_section(h, t, c) ==
  <<TextLine("Log & Status:")>>
    \o [k \in 1 .. c |-> LogLine(h, t, k - 1)]
    \o [k \in 1 .. (LOG_SIZE - c) |-> BlankLine]
    \o <<BlankLine>>

\* print_instructions(): the four lines of the repository box
print_instructions ==
  <<TextLine("+----------------------------------------------------+"),
    TextLine("| HexKernel | GitHub Repository                      |"),
    TextLine("| github.com/HexKernel/Arduino-DHT11-Weather-Station |"),
    TextLine("+----------------------------------------------------+")>>

Section(kind, lines) == [kind |-> kind, lines |-> lines]

\* ---------------------------------------------------------- metric bank
\* dewPoint = temp - ((100 - hum) / 5.0), in hundredths of a degree
dewPoint(t, h) ==
  IF isnan(t) \/ isnan(h) THEN NaN
  ELSE Val((t.v * 100) - (((100 - h.v) * 100) \div 5))

\* ------------------------------------------------------------- delay()
\* delay(ms): the clock advances by ms
Delay(ms) ==
  /\ now' = Add32(now, ms)
  /\ waited' = waited + ms
  /\ wrapped' = (wrapped \/ Carry32(now, ms))

\* ------------------------------------------------------------ blinkLed()
\* a call blinkLed(times, delayMs) that returns to position ret
CallBlink(times, delayMs, ret) ==
  /\ blink' = [times |-> times, delayMs |-> delayMs, i |-> 0, ret |-> ret]
  /\ pc' = "blink_head"

NoBlink == [times |-> 0, delayMs |-> 0, i |-> 0, ret |-> "idle"]

\* for (int i = 0; i < times; i++)
BlinkHead ==
  /\ pc = "blink_head"
  /\ pc' = IF blink.i < blink.times THEN "blink_high" ELSE blink.ret
  /\ UNCHANGED <<temp, hum, metrics, logv, now, led, wait_i, blink, out, histv>>

\* digitalWrite(LED_PIN, HIGH); delay(delayMs);
BlinkHigh ==
  /\ pc = "blink_high"
  /\ led' = "HIGH"
  /\ Delay(blink.delayMs)
  /\ pc' = "blink_low"
  /\ UNCHANGED <<temp, hum, metrics, logv, wait_i, blink, out, events, appended,
                 evicted, done>>

\* digitalWrite(LED_PIN, LOW); delay(delayMs); i++
BlinkLow ==
  /\ pc = "blink_low"
  /\ led' = "LOW"
  /\ Delay(blink.delayMs)
  /\ blink' = [blink EXCEPT !.i = @ + 1]
  /\ pc' = "blink_head"
  /\ UNCHANGED <<temp, hum, metrics, logv, wait_i, out, events, appended,
                 evicted, done>>

\* ---------------------------------------------------------------- loop()
NoMetrics == [computed |-> FALSE, dewPoint |-> NaN]

\* the first statements of loop(), in program order; "check" follows them
StartOrderClearFirst == <<"clear", "log_meas", "read_temp", "read_hum">>
StartOrder == <<"read_temp", "read_hum", "clear", "log_meas">>

After(p) ==
  LET k == CHOOSE j \in 1 .. Len(StartOrder) : StartOrder[j] = p
  IN  IF k < Len(StartOrder) THEN StartOrder[k + 1] ELSE "check"

\* the core calls loop() again: fresh locals, nothing printed yet by this call
CallLoop ==
  /\ pc = "idle"
  /\ Len(done) < MaxCycles
  /\ pc' = StartOrder[1]
  /\ metrics' = NoMetrics
  /\ wait_i' = 0
  /\ blink' = NoBlink
  /\ out' = <<>>
  /\ events' = <<>>
  /\ waited' = 0
  /\ UNCHANGED <<temp, hum, logv, now, led, wrapped, appended, evicted, done>>

\* float temp = dht.readTemperature();
ReadTemperature ==
  /\ pc = "read_temp"
  /\ \E t \in Temperatures : temp' = t
  /\ events' = Append(events, "readTemperature")
  /\ pc' = After("read_temp")
  /\ UNCHANGED <<hum, metrics, logv, now, led, wait_i, blink, out, waited,
                 wrapped, appended, evicted, done>>

\* float hum = dht.readHumidity();
ReadHumidity ==
  /\ pc = "read_hum"
  /\ \E h \in Humidities : hum' = h
  /\ events' = Append(events, "readHumidity")
  /\ pc' = After("read_hum")
  /\ UNCHANGED <<temp, metrics, logv, now, led, wait_i, blink, out, waited,
                 wrapped, appended, evicted, done>>

\* log_count = 0;
ClearLogKeepCount ==
  /\ pc = "clear"
  /\ events' = Append(events, "clear")
  /\ pc' = After("clear")
  /\ UNCHANGED <<temp, hum, metrics, logv, now, led, wait_i, blink, out, waited,
                 wrapped, appended, evicted, done>>
ClearLog ==
  /\ pc = "clear"
  /\ log_count' = 0
  /\ appended' = <<>>
  /\ wrapped' = FALSE
  /\ events' = Append(events, "clear")
  /\ pc' = After("clear")
  /\ UNCHANGED <<temp, hum, metrics, log_history, log_times, now, led, wait_i,
                 blink, out, waited, evicted, done>>

\* a statement add_log(msg) at position at, followed by position next
LogStep(at, msg, next) ==
  /\ pc = at
  /\ DoAddLog(msg)
  /\ events' = Append(events, msg)
  /\ pc' = next
  /\ UNCHANGED <<temp, hum, metrics, now, led, wait_i, blink, out, waited,
                 wrapped, done>>

\* add_log("Measurement received from DHT11.");
LogMeasurement == LogStep("log_meas", MSG_MEASUREMENT, After("log_meas"))

\* isnan(temp) || isnan(hum)
ReadingInvalidBoth(t, h) == isnan(t) /\ isnan(h)
ReadingInvalid(t, h) == isnan(t) \/ isnan(h)

\* if (isnan(temp) || isnan(hum)) { ... return; }
CheckReading ==
  /\ pc = "check"
  /\ pc' = IF ReadingInvalid(temp, hum) THEN "e_log_err" ELSE "v_log_calc"
  /\ UNCHANGED <<temp, hum, metrics, logv, now, led, wait_i, blink, out, histv>>

\* print_log_section(); at position at
PrintLog(at, next) ==
  /\ pc = at
  /\ out' = Append(out, Section("log", print_log_section(log_history, log_times, log_count)))
  /\ events' = Append(events, "print_log_section")
  /\ waited' = 0
  /\ pc' = next
  /\ UNCHANGED <<temp, hum, metrics, logv, now, led, wait_i, blink, wrapped,
                 appended, evicted, done>>

\* print_instructions(); at position at
PrintInstr(at, next) ==
  /\ pc = at
  /\ out' = Append(out, Section("instructions", print_instructions))
  /\ events' = Append(events, "print_instructions")
  /\ pc' = next
  /\ UNCHANGED <<temp, hum, metrics, logv, now, led, wait_i, blink, waited,
                 wrapped, appended, evicted, done>>

\* for (int i = 0; ...   of the wait pattern
WaitInit(at, next) ==
  /\ pc = at
  /\ wait_i' = 0
  /\ pc' = next
  /\ UNCHANGED <<temp, hum, metrics, logv, now, led, blink, out, histv>>

\* ... i < 8; ...) { blinkLed(1, 625);
WaitHead(at, next, exit) ==
  /\ pc = at
  /\ IF wait_i < 8
       THEN /\ CallBlink(1, 625, next)
            /\ events' = Append(events, "blinkLed(1,625)")
       ELSE /\ pc' = exit
            /\ UNCHANGED <<blink, events>>
  /\ UNCHANGED <<temp, hum, metrics, logv, now, led, wait_i, out, waited,
                 wrapped, appended, evicted, done>>

\* delay(625); } ... ++i
WaitDelay(at, head) ==
  /\ pc = at
  /\ Delay(625)
  /\ wait_i' = wait_i + 1
  /\ pc' = head
  /\ UNCHANGED <<temp, hum, metrics, logv, led, blink, out, events, appended,
                 evicted, done>>

\* loop() returns
Return(at, branch) ==
  /\ pc = at
  /\ done' = Append(done, [branch |-> branch, wait |-> waited])
  /\ pc' = "idle"
  /\ UNCHANGED <<temp, hum, metrics, logv, now, led, wait_i, blink, out, events,
                 waited, wrapped, appended, evicted>>

\* ------------------------------------------- loop(): invalid reading
LogSensorError == LogStep("e_log_err", MSG_SENSOR_ERROR, "e_log_wait")
LogWaitInvalid == LogStep("e_log_wait", WAIT_MSG, "e_print_log")
PrintLogInvalid == PrintLog("e_print_log", "e_print_instr")
PrintInstrInvalid == PrintInstr("e_print_instr", "e_wait_init")
WaitInitInvalid == WaitInit("e_wait_init", "e_wait")
WaitHeadInvalid == WaitHead("e_wait", "e_wait_delay", "e_final_delay")
WaitDelayInvalid == WaitDelay("e_wait_delay", "e_wait")

\* delay(5000); // Complete the 10 second wait
FinalDelayHalt ==
  /\ pc = "e_final_delay"
  /\ Delay(5000)
  /\ pc' = "halt"
  /\ UNCHANGED <<temp, hum, metrics, logv, led, wait_i, blink, out, events,
                 appended, evicted, done>>
FinalDelay ==
  /\ pc = "e_final_delay"
  /\ Delay(5000)
  /\ pc' = "e_return"
  /\ UNCHANGED <<temp, hum, metrics, logv, led, wait_i, blink, out, events,
                 appended, evicted, done>>

\* return;
ReturnInvalid == Return("e_return", "invalid")

\* --------------------------------------------- loop(): valid reading
LogCalculations == LogStep("v_log_calc", MSG_CALCULATIONS, "v_compute")

\* float heatIndex = ...; ... float enthalpy = ...;
ComputeMetrics ==
  /\ pc = "v_compute"
  /\ metrics' = [computed |-> TRUE, dewPoint |-> dewPoint(temp, hum)]
  /\ events' = Append(events, "compute")
  /\ pc' = "v_log_parse"
  /\ UNCHANGED <<temp, hum, logv, now, led, wait_i, blink, out, waited, wrapped,
                 appended, evicted, done>>

LogParsing == LogStep("v_log_parse", MSG_PARSING, "v_ack")

\* blinkLed(3, 70);
AckBlink ==
  /\ pc = "v_ack"
  /\ CallBlink(3, 70, "v_clear_screen")
  /\ events' = Append(events, "blinkLed(3,70)")
  /\ UNCHANGED <<temp, hum, metrics, logv, now, led, wait_i, out, waited,
                 wrapped, appended, evicted, done>>

\* for (int i = 0; i < 30; ++i) Serial.println();
ClearScreen ==
  /\ pc = "v_clear_screen"
  /\ out' = Append(out, Section("clear", [k \in 1 .. 30 |-> TextLine("")]))
  /\ pc' = "v_panel"
  /\ UNCHANGED <<temp, hum, metrics, logv, now, led, wait_i, blink, histv>>

Border == TextLine("+----------------------------------------------------+")

MetricLine(name) == <<"metric", name>>

\* the header and the metric lines, from the first print_border() to the third
PanelLines ==
  <<Border,
    TextLine("|         Arduino Weather Station Live Feed          |"),
    <<"uptime", HMS(Div1000(millis))>>,
    Border,
    MetricLine("Temp (C)"), MetricLine("Humidity (%)"),
    MetricLine("Heat Index (C)"), MetricLine("Humidex"),
    MetricLine("Dew Point (C)"), MetricLine("Wet Bulb Temp (C)"),
    MetricLine("Enthalpy (kJ/kg)"),
    TextLine(""),
    MetricLine("Abs Humidity (g/m3)"), MetricLine("Specific Humidity"),
    MetricLine("Mixing Ratio (g/kg)"),
    TextLine(""),
    MetricLine("Vapor Pressure (hPa)"), MetricLine("Sat Vapor Press."),
    Border>>

\* unsigned long uptime = millis() / 1000; ... print_border();
PrintPanelWithLog ==
  /\ pc = "v_panel"
  /\ out' = Append(Append(out, Section("metrics", PanelLines)),
                   Section("log", print_log_section(log_history, log_times, log_count)))
  /\ events' = Append(Append(events, "print_metrics"), "print_log_section")
  /\ pc' = "v_log_succ"
  /\ UNCHANGED <<temp, hum, metrics, logv, now, led, wait_i, blink, waited,
                 wrapped, appended, evicted, done>>
PrintPanel ==
  /\ pc = "v_panel"
  /\ out' = Append(out, Section("metrics", PanelLines))
  /\ events' = Append(events, "print_metrics")
  /\ pc' = "v_log_succ"
  /\ UNCHANGED <<temp, hum, metrics, logv, now, led, wait_i, blink, waited,
                 wrapped, appended, evicted, done>>

LogSuccess == LogStep("v_log_succ", MSG_SUCCESS, "v_log_wait")
LogWaitValid == LogStep("v_log_wait", WAIT_MSG, "v_print_log")
PrintLogValid == PrintLog("v_print_log", "v_print_instr")
PrintInstrValid == PrintInstr("v_print_instr", "v_wait_init")
WaitInitValid == WaitInit("v_wait_init", "v_wait")
WaitHeadValid == WaitHead("v_wait", "v_wait_delay", "v_return")
WaitDelayValid == WaitDelay("v_wait_delay", "v_wait")

\* } of loop()
ReturnValid == Return("v_return", "valid")

\* ------------------------------------------------------- specifications
\* The clock when loop() is entered: right after setup() (delay(2000)), and at
\* the head of two later cycles, 2000 + 15420 * a + 20000 * b for a valid and
\* b invalid cycles before it:
\*   196200     = 2 * 2^16 + 65128,      a = 10,  b = 2
\*   4294967100 = 65535 * 2^16 + 65340,  a = 405, b = 214436
StartTimes == {ULong(0, 2000), ULong(2, 65128), ULong(65535, 65340)}

Init ==
  /\ pc = "idle"
  /\ temp = NaN
  /\ hum = NaN
  /\ metrics = NoMetrics
  /\ log_history = [i \in Slots |-> ""]
  /\ log_times = [i \in Slots |-> ULong(0, 0)]
  /\ log_count = 0
  /\ now \in StartTimes
  /\ led = "LOW"
  /\ wait_i = 0
  /\ blink = NoBlink
  /\ out = <<>>
  /\ events = <<>>
  /\ waited = 0
  /\ wrapped = FALSE
  /\ appended = <<>>
  /\ evicted = FALSE
  /\ done = <<>>

Next ==
  \/ CallLoop
  \/ ReadTemperature
  \/ ReadHumidity
  \/ ClearLog
  \/ LogMeasurement
  \/ CheckReading
  \/ LogSensorError
  \/ LogWaitInvalid
  \/ PrintLogInvalid
  \/ PrintInstrInvalid
  \/ WaitInitInvalid
  \/ WaitHeadInvalid
  \/ WaitDelayInvalid
  \/ FinalDelay
  \/ ReturnInvalid
  \/ LogCalculations
  \/ ComputeMetrics
  \/ LogParsing
  \/ AckBlink
  \/ ClearScreen
  \/ PrintPanel
  \/ LogSuccess
  \/ LogWaitValid
  \/ PrintLogValid
  \/ PrintInstrValid
  \/ WaitInitValid
  \/ WaitHeadValid
  \/ WaitDelayValid
  \/ ReturnValid
  \/ BlinkHead
  \/ BlinkHigh
  \/ BlinkLow

Spec == Init /\ [][Next]_vars

\* the core never stops executing the sketch
FairSpec == Spec /\ WF_vars(Next)

\* ------------------------------------------------ driver of the rolling log
\* LogSpec calls the log's operations directly: the clear of loop()
\* (log_count = 0), then add_log with any message, each followed by a delay,
\* and print_log_section at any moment.  It starts from the log as boot leaves
\* it, or as an invalid cycle leaves it (three stale entries).
DriverMsgs == {MSG_MEASUREMENT, WAIT_MSG}
DriverDelays == {0, 625}

StaleLog(t) ==
  [history |-> [i \in Slots |-> IF i = 0 THEN MSG_MEASUREMENT
                                ELSE IF i = 1 THEN MSG_SENSOR_ERROR
                                ELSE IF i = 2 THEN WAIT_MSG ELSE ""],
   times   |-> [i \in Slots |-> IF i < 3 THEN t ELSE ULong(0, 0)],
   count   |-> 3]

LogStarts ==
  { [clock |-> ULong(0, 2000),
     log |-> [history |-> [i \in Slots |-> ""],
              times |-> [i \in Slots |-> ULong(0, 0)], count |-> 0]],
    [clock |-> ULong(0, 22000), log |-> StaleLog(ULong(0, 2000))],
    [clock |-> ULong(65535, 65340), log |-> StaleLog(ULong(65535, 45340))] }

LogInit ==
  /\ pc = "idle"
  /\ temp = NaN
  /\ hum = NaN
  /\ metrics = NoMetrics
  /\ \E s \in LogStarts :
       /\ now = s.clock
       /\ log_history = s.log.history
       /\ log_times = s.log.times
       /\ log_count = s.log.count
  /\ led = "LOW"
  /\ wait_i = 0
  /\ blink = NoBlink
  /\ out = <<>>
  /\ events = <<>>
  /\ waited = 0
  /\ wrapped = FALSE
  /\ appended = <<>>
  /\ evicted = FALSE
  /\ done = <<>>

\* log_count = 0;
DriverClear ==
  /\ pc = "idle"
  /\ log_count' = 0
  /\ appended' = <<>>
  /\ wrapped' = FALSE
  /\ out' = <<>>
  /\ pc' = "driver"
  /\ UNCHANGED <<temp, hum, metrics, log_history, log_times, now, led, wait_i,
                 blink, events, waited, evicted, done>>

\* add_log(m); delay(d);
DriverAppend ==
  /\ pc = "driver"
  /\ Len(appended) < MaxAppends
  /\ \E m \in DriverMsgs, d \in DriverDelays :
       /\ DoAddLog(m)
       /\ Delay(d)
  /\ out' = <<>>
  /\ UNCHANGED <<pc, temp, hum, metrics, led, wait_i, blink, events, done>>

\* print_log_section();
DriverRender ==
  /\ out = <<>>
  /\ out' = <<Section("log", print_log_section(log_history, log_times, log_count))>>
  /\ UNCHANGED <<pc, temp, hum, metrics, logv, now, led, wait_i, blink, histv>>

LogNext ==
  \/ DriverClear
  \/ DriverAppend
  \/ DriverRender

LogSpec == LogInit /\ [][LogNext]_vars

\* ============================================================ properties
Min(a, b) == IF a < b THEN a ELSE b

IsPrefix(p, q) == Len(p) <= Len(q) /\ \A k \in 1 .. Len(p) : p[k] = q[k]

\* the log sections among what the cycle has printed
LogSections == {k \in 1 .. Len(out) : out[k].kind = "log"}

\* the messages a log section shows, top to bottom
ShownMessages(lines) ==
  LET entries == SelectSeq(lines, LAMBDA l : l[1] \in {"plain", "stamped"})
  IN  [k \in 1 .. Len(entries) |-> entries[k][Len(entries[k])]]

\* both readings of the current cycle have been taken
ReadingTaken ==
  /\ \E k \in 1 .. Len(events) : events[k] = "readTemperature"
  /\ \E k \in 1 .. Len(events) : events[k] = "readHumidity"

\* a log section has just been printed
JustRendered == pc \in {"e_print_instr", "v_print_instr"}

\* log_times[0 .. log_count-1] is non-decreasing as unsigned longs
NonDecreasing ==
  \A i \in 0 .. (log_count - 2) : Le32(log_times[i], log_times[i + 1])

\* C1 (LogSpec).  After n add_log calls since the clear the log holds exactly
\* the last min(n, 6) messages, each with the clock value of its own append,
\* in insertion order; after 7 appends entry 0 is the 2nd appended message and
\* entry 5 the 7th.
C1_FifoEviction ==
  pc = "driver" =>
    LET n == Len(appended)
        c == Min(n, LOG_SIZE)
    IN  /\ log_count = c
        /\ \A k \in 0 .. (c - 1) :
             /\ log_history[k] = appended[n - c + k + 1].msg
             /\ log_times[k] = appended[n - c + k + 1].time
        /\ n = 7 => /\ log_history[0] = appended[2].msg
                    /\ log_history[5] = appended[7].msg

\* seven appends, the shifting branch taken, first and second message differ
C1_Witness ==
  /\ pc = "driver"
  /\ Len(appended) = 7
  /\ evicted
  /\ appended[1].msg # appended[2].msg
  /\ appended[6].time # appended[7].time

\* C2 (Spec).  Every completed cycle, valid or invalid, has waited the same
\* number of milliseconds between printing the log section and returning.
C2_SameWaitInBothBranches ==
  \A i, j \in 1 .. Len(done) : done[i].wait = done[j].wait

\* C3 (Spec).  A valid cycle waits 10000 ms between printing the log section
\* and returning.
C3_ValidWaitIsTenSeconds ==
  \A i \in 1 .. Len(done) : done[i].branch = "valid" => done[i].wait = 10000

\* C4 as stated (Spec).  A sensor read of a cycle comes after that cycle's log
\* clear and its "measurement received" append.
C4_ReadAfterClearAndAppend ==
  \A k \in 1 .. Len(events) :
    events[k] \in {"readTemperature", "readHumidity"} =>
      \E i, j \in 1 .. (k - 1) :
        i < j /\ events[i] = "clear" /\ events[j] = MSG_MEASUREMENT

\* C4 amended (Spec).  A cycle starts by reading the temperature, then the
\* humidity, then clears the log, then appends "measurement received": the
\* clear and the first append never precede the cycle's sensor reads.
C4_ReadBeforeClearAndAppend ==
  /\ IsPrefix(SubSeq(events, 1, Min(4, Len(events))),
              <<"readTemperature", "readHumidity", "clear", MSG_MEASUREMENT>>)
  /\ pc \notin {"idle", "read_temp", "read_hum", "clear", "log_meas"} => Len(events) >= 4

C4_Witness ==
  /\ pc = "check"
  /\ events = <<"readTemperature", "readHumidity", "clear", MSG_MEASUREMENT>>
  /\ log_count = 1

\* C5 (Spec).  In a cycle whose temperature or humidity is NaN no metric is
\* computed or printed, the screen is not cleared, blinkLed(3, 70) is not
\* called, and the report is the log section alone, showing exactly
\* measurement received, sensor error, wait marker (the repository box that
\* closes every report follows it).
C5_InvalidBranch ==
  (ReadingTaken /\ pc # "check" /\ (isnan(temp) \/ isnan(hum))) =>
    /\ ~metrics.computed
    /\ \A k \in 1 .. Len(events) :
         events[k] \notin {MSG_CALCULATIONS, "compute", MSG_PARSING,
                           "blinkLed(3,70)", "print_metrics", MSG_SUCCESS}
    /\ IsPrefix([k \in 1 .. Len(out) |-> out[k].kind], <<"log", "instructions">>)
    /\ \A k \in LogSections :
         ShownMessages(out[k].lines) = <<MSG_MEASUREMENT, MSG_SENSOR_ERROR, WAIT_MSG>>
    /\ pc \in {"e_return", "idle"} => Len(out) = 2

\* an invalid cycle with only one of the two readings NaN, at its end
C5_Witness ==
  /\ pc = "e_return"
  /\ isnan(hum)
  /\ ~isnan(temp)
  /\ Len(out) = 2

\* C6 as stated (Spec).  A valid cycle prints the log section twice: once in
\* the full report and once more after "success" and the wait marker.
C6_LogRenderedTwice ==
  pc = "v_return" => Cardinality(LogSections) = 2

\* the steps of a valid cycle
ValidOrder ==
  <<"readTemperature", "readHumidity", "clear", MSG_MEASUREMENT,
    MSG_CALCULATIONS, "compute", MSG_PARSING, "blinkLed(3,70)",
    "print_metrics", MSG_SUCCESS, WAIT_MSG, "print_log_section",
    "print_instructions">> \o [k \in 1 .. 8 |-> "blinkLed(1,625)"]

\* C6 amended (Spec).  A valid cycle appends "calculations done", computes the
\* metrics, appends "parsing", blinks three times, prints the header and the
\* metrics without any log section, appends "success" and the wait marker,
\* prints the log section once, with all five entries, then the repository
\* box, then runs the wait pattern.
C6_ValidBranchOrder ==
  (ReadingTaken /\ pc # "check" /\ ~(isnan(temp) \/ isnan(hum))) =>
    /\ IsPrefix(events, ValidOrder)
    /\ IsPrefix([k \in 1 .. Len(out) |-> out[k].kind],
                <<"clear", "metrics", "log", "instructions">>)
    /\ \A k \in LogSections :
         ShownMessages(out[k].lines) =
           <<MSG_MEASUREMENT, MSG_CALCULATIONS, MSG_PARSING, MSG_SUCCESS, WAIT_MSG>>
    /\ \A k \in 1 .. Len(events) : events[k] = "print_metrics" => metrics.computed
    /\ pc \in {"v_return", "idle"} => (events = ValidOrder /\ Len(out) = 4)

C6_Witness ==
  /\ pc = "v_return"
  /\ events = ValidOrder
  /\ Cardinality(LogSections) = 1

\* C7 (LogSpec).  print_log_section prints LOG_SIZE + 2 lines whatever
\* log_count is: the header, one line per entry, one blank line per unused
\* slot, one trailing blank line.
C7_ConstantLineCount ==
  out # <<>> =>
    LET L == out[1].lines
    IN  /\ Len(L) = LOG_SIZE + 2
        /\ L[1] = TextLine("Log & Status:")
        /\ \A k \in 2 .. (log_count + 1) : L[k][1] \in {"plain", "stamped"}
        /\ \A k \in (log_count + 2) .. Len(L) : L[k][1] = "text" /\ L[k] = BlankLine

\* a section printed from a partly filled log
C7_Witness ==
  /\ out # <<>>
  /\ pc = "driver"
  /\ log_count = 2

\* C8 (FairSpec).  Whatever the readings, every cycle that starts returns and
\* the next one reads the sensor again.
C8_AlwaysRetries ==
  \A k \in 0 .. (MaxCycles - 1) :
    /\ (Len(done) = k) ~> (Len(done) = k + 1 /\ pc = "idle")
    /\ (Len(done) = k /\ pc = "idle") ~> (Len(done) = k /\ ReadingTaken)

\* two invalid cycles in a row have completed
C8_Witness ==
  /\ Len(done) = 2
  /\ done[1].branch = "invalid"
  /\ done[2].branch = "invalid"
  /\ pc = "idle"

\* C9 (Spec).  log_count stays within 0 .. 5 and add_log never takes its
\* shifting branch.
C9_NoEvictionInLoop ==
  /\ log_count \in 0 .. 5
  /\ log_count < LOG_SIZE
  /\ ~evicted
  /\ Len(appended) <= 5

C9_Witness ==
  /\ log_count = 5
  /\ Len(done) = 1
  /\ pc = "v_print_log"

\* C10 as stated (Spec).  Whenever the log section has just been printed the
\* stored timestamps are non-decreasing in index order.
C10_RenderedChronological == JustRendered => NonDecreasing

\* C10 amended (Spec).  Whenever the log section has just been printed the
\* stored timestamps are non-decreasing in index order unless the clock
\* passed 2^32 since the log was cleared; in every case each timestamp is
\* less than 2^31 ms after the one before it, modulo 2^32.
C10_ChronologicalModuloWrap ==
  JustRendered =>
    /\ ~wrapped => NonDecreasing
    /\ \A i \in 0 .. (log_count - 2) :
         Sub32(log_times[i + 1], log_times[i]).hi < Half \div 2

\* the clock wrapped during blinkLed(3, 70): the fourth entry is earlier than the third
C10_Witness ==
  /\ pc = "v_print_instr"
  /\ wrapped
  /\ ~Le32(log_times[2], log_times[3])

=============================================================================
